---- MODULE Spec2Model ----
(***************************************************************************)
(* A model of app.py, the face-recognition attendance service: the         *)
(* embedding cache (ENCODING_CACHE under ENCODING_CACHE_LOCK), the photo   *)
(* enrollment handlers, the motion-based liveness check and the matching   *)
(* loop of api_mark_attendance.                                            *)
(*                                                                         *)
(* Strings that the code inspects (paths, file names) are sequences of     *)
(* one-character strings.  An image is modelled by what the code reads of  *)
(* it: its grayscale pixels (a row of blocks of w equal pixels) and the    *)
(* face embeddings the extractor finds in it.  An embedding is a point on  *)
(* a line, in hundredths of the extractor's distance scale.                *)
(***************************************************************************)
EXTENDS Integers, Sequences, FiniteSets, TLC

\* ------------------------------------------------------------------ bounds
MaxWidth == 2        \* widest image (in blocks) given to the liveness check
MaxFrames == 3       \* longest frame list given to the liveness check
MaxStudents == 2     \* students ever created (AUTOINCREMENT ids 1..MaxStudents)
MaxClock == 1        \* seconds the wall clock advances
MaxThreads == 1      \* cache-warming threads alive at once
MaxEvents == 1       \* attendance rows present when a request may still start
MaxGallery == 2      \* enrolled students when the matching is checked alone
MaxReqFrames == 2    \* longest frame list of a request
MaxHandlers == 2

\* ------------------------------------------------------- program constants
DEFAULT_THRESHOLD_PIXELS == 1000
DEFAULT_DIFF_THRESHOLD == 30
MATCH_THRESHOLD == 50
NoEnc == -1

\* --------------------------------------------------------------- variables
VARIABLES
    students,   \* table students: student_id -> roll_no
    nextSid,    \* the next AUTOINCREMENT student_id
    photos,     \* table photos in id order: rows [student_id, photo_path]
    fs,         \* files under PHOTO_DIR: path -> stored image
    attendance, \* table attendance in id order: the student_id of each row
    now,        \* the wall clock, in seconds
    cache,      \* ENCODING_CACHE: path -> embedding
    lock,       \* ENCODING_CACHE_LOCK: the set of threads holding it
    thr,        \* each thread's call of compute_face_encoding_from_file
    evicting,   \* api_delete_student calls past their commit, before the eviction
    rq,         \* the api_mark_attendance request in progress and its locals
    hist,       \* history: what has been deleted, replaced or evicted
    lv,         \* one call of frames_have_motion: its arguments and its result
    hd          \* each concurrent enrollment request's position and locals

vars == <<students, nextSid, photos, fs, attendance, now, cache, lock, thr,
          evicting, rq, hist, lv, hd>>

dbVars == <<students, nextSid, photos, fs, attendance, now>>

\* ----------------------------------------------------------------- images
\* A frame that cannot be decoded (base64 or PIL raises).
BadFrame == [ok |-> FALSE, w |-> 0, px |-> <<>>, faces |-> <<>>]

\* A decodable image: a row of Len(px) blocks, each of w pixels of one
\* luminance, showing the faces whose embeddings are listed.
Image(w, px, faces) == [ok |-> TRUE, w |-> w, px |-> px, faces |-> faces]

Width(f) == f.w * Len(f.px)

\* An optional list argument: None, or a list.
NoList == [has |-> FALSE, list |-> <<>>]
List(s) == [has |-> TRUE, list |-> s]

\* ------------------------------------------------- frames_have_motion
ToInt16(x) == ((x + 32768) % 65536) - 32768

Abs(x) == IF x < 0 THEN 0 - x ELSE x

\* A uint8 subtraction, as numpy does it without the cast to int16.
PixDiffUint8(a, b) == (a - b) % 256

\* np.abs(a.astype("int16") - b.astype("int16")) at one pixel.
PixDiff(a, b) == Abs(ToInt16(ToInt16(a) - ToInt16(b)))

\* The luminance at pixel i of frame f when f is combined with an array of
\* width n: numpy broadcasts an array of width 1.
PixAt(f, i) == IF Width(f) = 1 THEN f.px[1] ELSE f.px[((i - 1) \div f.w) + 1]

\* Whether numpy can subtract the two arrays (equal shapes, or one of width 1).
Broadcastable(a, b) == Width(a) = Width(b) \/ Width(a) = 1 \/ Width(b) = 1

MaxOf(a, b) == IF a >= b THEN a ELSE b

\* int((diff > diff_threshold).sum())
CountMoving(a, b, diff_threshold) ==
    Cardinality({i \in 1..MaxOf(Width(a), Width(b)) :
                    PixDiff(PixAt(a, i), PixAt(b, i)) > diff_threshold})

RECURSIVE MotionLoop(_, _, _, _)
MotionLoop(gray, i, threshold_pixels, diff_threshold) ==
    IF i > Len(gray) - 1 THEN "false"
    ELSE IF ~Broadcastable(gray[i], gray[i + 1]) THEN "raise"
    ELSE IF CountMoving(gray[i], gray[i + 1], diff_threshold) > threshold_pixels
         THEN "true"
    ELSE MotionLoop(gray, i + 1, threshold_pixels, diff_threshold)

\* A faulty variant, for comparison: the early exit for too few frames is dropped, and a frame
\* that cannot be decoded is skipped instead of failing the call.
FramesHaveMotionOpen(frames, threshold_pixels, diff_threshold) ==
    MotionLoop(SelectSeq(frames.list, LAMBDA f : f.ok), 1,
               threshold_pixels, diff_threshold)

\* frames_have_motion(frames_b64_list, threshold_pixels, diff_threshold):
\* "true", "false", or "raise" when numpy refuses the subtraction.
FramesHaveMotion(frames, threshold_pixels, diff_threshold) ==
    IF ~frames.has \/ Len(frames.list) < 2 THEN "false"
    ELSE IF \E i \in 1..Len(frames.list) : ~frames.list[i].ok THEN "false"
    ELSE MotionLoop(frames.list, 1, threshold_pixels, diff_threshold)

\* ---------------------------------------------------------- strings, paths
Digits == <<"0", "1", "2", "3", "4", "5", "6", "7", "8", "9">>

\* str(n), f"{n}"
RECURSIVE ToStr(_)
ToStr(n) ==
    IF n < 10 THEN <<Digits[n + 1]>>
    ELSE ToStr(n \div 10) \o <<Digits[(n % 10) + 1]>>

Sep == <<"/">>
PHOTO_DIR == <<"/", "p">>
Png == <<".", "p", "n", "g">>

\* os.path.join(PHOTO_DIR, filename)
PhotoPath(filename) == PHOTO_DIR \o Sep \o filename

\* f"{roll}.png"
RollFilename(roll) == roll \o Png

\* f"{student_id}_{ts}.png", ts the clock's reading to the second
StampFilename(student_id, ts) == ToStr(student_id) \o <<"_">> \o ToStr(ts) \o Png

\* sub in s
Contains(s, sub) ==
    \E i \in 1..(Len(s) - Len(sub) + 1) : SubSeq(s, i, i + Len(sub) - 1) = sub

\* The test of api_delete_student's eviction loop on cache key k.
EvictMatches(student_id, k) ==
    \/ Contains(k, Sep \o ToStr(student_id) \o <<"_">>)
    \/ Contains(k, ToStr(student_id) \o <<".">>)
    \/ Contains(k, ToStr(student_id) \o <<"_">>)

\* ------------------------------------------------------------- finite maps
Put(f, k, v) == [x \in (DOMAIN f) \cup {k} |-> IF x = k THEN v ELSE f[x]]
Drop(f, ks) == [x \in (DOMAIN f) \ ks |-> f[x]]
Empty == [x \in {} |-> 0]

PathsOf(student_id) ==
    {photos[i].photo_path : i \in {j \in 1..Len(photos) : photos[j].student_id = student_id}}
PhotoPaths == {photos[i].photo_path : i \in 1..Len(photos)}

\* student_has_photo / SELECT COUNT(*) FROM photos WHERE student_id=?
student_has_photo(student_id) == PathsOf(student_id) # {}

\* filename_exists_in_db
filename_exists_in_db(filename) == PhotoPath(filename) \in PhotoPaths

\* An enrollment photo: only the faces in it matter.
Photo(faces) == Image(1, <<0>>, faces)

\* ------------------------------------------------------------------ threads
Workers == 1..MaxThreads
ReqThread == MaxThreads + 1
Threads == Workers \cup {ReqThread}

IdleThread == [pc |-> "idle", path |-> <<>>, enc |-> NoEnc, ret |-> NoEnc]

\* The call returns value: a warming thread ends there (its result is
\* dropped), the request's thread goes on with the value.
Returned(t, path, value) ==
    IF t \in Workers THEN IdleThread
    ELSE [pc |-> "ret", path |-> path, enc |-> NoEnc, ret |-> value]

\* Entering compute_face_encoding_from_file(path), before line 115.
Called(path) == [pc |-> "lock_r", path |-> path, enc |-> NoEnc, ret |-> NoEnc]

\* threading.Thread(target=compute_face_encoding_from_file, args=(saved,)).start()
StartWarm(t, path) ==
    /\ t \in Workers
    /\ thr[t].pc = "idle"
    /\ thr' = [thr EXCEPT ![t] = Called(path)]

\* load_image_file, face_encodings and encs[0] on the file now at path:
\* NoEnc when the file is missing or no image (the call raises) or shows no face.
ExtractFile(path) ==
    IF path \notin DOMAIN fs THEN NoEnc
    ELSE IF ~fs[path].ok THEN NoEnc
    ELSE IF fs[path].faces = <<>> THEN NoEnc
    ELSE fs[path].faces[1]

\* with ENCODING_CACHE_LOCK: (line 115)
ComputeAcquireRead(t) ==
    /\ thr[t].pc = "lock_r"
    /\ lock = {}
    /\ lock' = {t}
    /\ thr' = [thr EXCEPT ![t].pc = "read"]
    /\ UNCHANGED <<dbVars, cache, evicting, rq, hist, lv, hd>>

\* A faulty variant, for comparison: the cache miss leaves the with-block without releasing the lock.
ReleaseAfterReadKept(t, hit) == IF hit THEN {} ELSE {t}

\* The lock after the with-block of lines 115-117.
ReleaseAfterRead(t, hit) == {}

\* if path in ENCODING_CACHE: return ENCODING_CACHE[path]  (lines 116-117)
ComputeRead(t) ==
    /\ thr[t].pc = "read"
    /\ lock = {t}
    /\ LET hit == thr[t].path \in DOMAIN cache IN
        /\ lock' = ReleaseAfterRead(t, hit)
        /\ thr' = IF hit
                  THEN [thr EXCEPT ![t] = Returned(t, thr[t].path, cache[thr[t].path])]
                  ELSE [thr EXCEPT ![t].pc = "extract"]
        /\ hist' = IF /\ hit
                      /\ thr[t].path \in hist.staleKeys
                      /\ cache[thr[t].path] # ExtractFile(thr[t].path)
                   THEN [hist EXCEPT !.staleHit = TRUE]
                   ELSE hist
    /\ UNCHANGED <<dbVars, cache, evicting, rq, lv, hd>>

\* A faulty variant, for comparison: an absent result is kept and stored like an embedding.
AfterExtractStoreAbsent(e) == "lock_w"

\* Where the call goes after lines 119-121: on to the store, or to return None.
AfterExtract(e) == IF e # NoEnc THEN "lock_w" ELSE "ret"

\* try: load_image_file, face_encodings, if encs: enc = encs[0]  (lines 118-122)
ComputeExtract(t) ==
    /\ thr[t].pc = "extract"
    /\ LET e == ExtractFile(thr[t].path) IN
        thr' = IF AfterExtract(e) = "ret"
               THEN [thr EXCEPT ![t] = Returned(t, thr[t].path, NoEnc)]
               ELSE [thr EXCEPT ![t].pc = AfterExtract(e), ![t].enc = e]
    /\ UNCHANGED <<dbVars, cache, lock, evicting, rq, hist, lv, hd>>

\* with ENCODING_CACHE_LOCK: (line 123)
ComputeAcquireWrite(t) ==
    /\ thr[t].pc = "lock_w"
    /\ lock = {}
    /\ lock' = {t}
    /\ thr' = [thr EXCEPT ![t].pc = "store"]
    /\ UNCHANGED <<dbVars, cache, evicting, rq, hist, lv, hd>>

\* ENCODING_CACHE[path] = enc; return enc  (lines 124-125)
ComputeStore(t) ==
    /\ thr[t].pc = "store"
    /\ lock = {t}
    /\ cache' = Put(cache, thr[t].path, thr[t].enc)
    /\ lock' = {}
    /\ thr' = [thr EXCEPT ![t] = Returned(t, thr[t].path, thr[t].enc)]
    /\ hist' = [hist EXCEPT
                  !.staleKeys = IF t \in hist.pre THEN @ \cup {thr[t].path} ELSE @,
                  !.pre = @ \ {t}]
    /\ UNCHANGED <<dbVars, evicting, rq, lv, hd>>

\* ------------------------------------------------------ enrollment handlers
Rolls == {<<"1">>}

\* The photo field of a request: absent, or base64 of the given bytes.
NoPhoto == [has |-> FALSE, img |-> BadFrame]
Given(img) == [has |-> TRUE, img |-> img]

\* api_add_student_with_photo(name, roll_no, photo)
api_add_student_with_photo(roll, photo) ==
    LET known == {s \in DOMAIN students : students[s] = roll}
        path == PhotoPath(RollFilename(roll))
        collides == path \in DOMAIN fs \/ filename_exists_in_db(RollFilename(roll))
    IN
    \/ \* the roll exists: attach the photo (lines 281-310)
       /\ known # {}
       /\ LET student_id == CHOOSE s \in known : TRUE IN
           /\ ~student_has_photo(student_id)
           /\ photo.has
           /\ ~collides
           /\ \E t \in Workers :
                 /\ fs' = Put(fs, path, photo.img)
                 /\ photos' = Append(photos, [student_id |-> student_id,
                                              photo_path |-> path])
                 /\ StartWarm(t, path)
       /\ UNCHANGED <<students, nextSid, attendance, now, cache, lock,
                      evicting, rq, hist, lv, hd>>
    \/ \* a new student, no photo stored (lines 313-347)
       /\ known = {}
       /\ nextSid <= MaxStudents
       /\ ~photo.has \/ collides
       /\ students' = Put(students, nextSid, roll)
       /\ nextSid' = nextSid + 1
       /\ UNCHANGED <<photos, fs, attendance, now, cache, lock, thr,
                      evicting, rq, hist, lv, hd>>
    \/ \* a new student with the photo (lines 313-361)
       /\ known = {}
       /\ nextSid <= MaxStudents
       /\ photo.has /\ ~collides
       /\ students' = Put(students, nextSid, roll)
       /\ nextSid' = nextSid + 1
       /\ \E t \in Workers :
             /\ fs' = Put(fs, path, photo.img)
             /\ photos' = Append(photos, [student_id |-> nextSid,
                                          photo_path |-> path])
             /\ StartWarm(t, path)
       /\ UNCHANGED <<attendance, now, cache, lock, evicting, rq, hist, lv, hd>>

\* api_upload_photo(student_id, photo)
api_upload_photo(student_id, photo) ==
    LET filename == StampFilename(student_id, now)
        path == PhotoPath(filename)
    IN
    /\ photo.has
    /\ student_id \in DOMAIN students
    /\ ~student_has_photo(student_id)
    /\ ~(path \in DOMAIN fs \/ filename_exists_in_db(filename))
    /\ \E t \in Workers :
          /\ fs' = Put(fs, path, photo.img)
          /\ photos' = Append(photos, [student_id |-> student_id,
                                       photo_path |-> path])
          /\ StartWarm(t, path)
    /\ UNCHANGED <<students, nextSid, attendance, now, cache, lock,
                   evicting, rq, hist, lv, hd>>

\* The paths of the rows a handler deletes that the cache still holds.
LeftCached(student_id) == PathsOf(student_id) \cap DOMAIN cache

\* api_replace_photo(student_id, photo)
api_replace_photo(student_id, photo) ==
    LET path == PhotoPath(StampFilename(student_id, now)) IN
    /\ photo.has
    /\ student_id \in DOMAIN students
    /\ \E t \in Workers :
          /\ fs' = Put(Drop(fs, PathsOf(student_id)), path, photo.img)
          /\ photos' = Append(SelectSeq(photos, LAMBDA r : r.student_id # student_id),
                              [student_id |-> student_id, photo_path |-> path])
          /\ StartWarm(t, path)
    /\ hist' = [hist EXCEPT !.invalid = @ \cup LeftCached(student_id)]
    /\ UNCHANGED <<students, nextSid, attendance, now, cache, lock,
                   evicting, rq, lv, hd>>

\* api_delete_student(student_id) up to conn.close()  (lines 527-541)
api_delete_student(student_id) ==
    /\ evicting = {}
    /\ fs' = Drop(fs, PathsOf(student_id))
    /\ photos' = SelectSeq(photos, LAMBDA r : r.student_id # student_id)
    /\ attendance' = SelectSeq(attendance, LAMBDA s : s # student_id)
    /\ students' = Drop(students, {student_id})
    /\ evicting' = evicting \cup {student_id}
    /\ hist' = [hist EXCEPT !.invalid = @ \cup LeftCached(student_id)]
    /\ UNCHANGED <<nextSid, now, cache, lock, thr, rq, lv, hd>>

\* The cache keys the loop of lines 545-547 pops for student_id.
Popped(student_id) == {k \in DOMAIN cache : EvictMatches(student_id, k)}

\* api_delete_student(student_id), the eviction under the lock (lines 543-549)
evict_encoding_cache(student_id) ==
    /\ student_id \in evicting
    /\ lock = {}
    /\ cache' = Drop(cache, Popped(student_id))
    /\ evicting' = evicting \ {student_id}
    /\ hist' = [hist EXCEPT
                  !.invalid = @ \ Popped(student_id),
                  !.staleKeys = @ \ Popped(student_id),
                  !.pre = @ \cup {t \in Threads :
                                     /\ thr[t].pc \in {"lock_w", "store"}
                                     /\ thr[t].path \in Popped(student_id)}]
    /\ UNCHANGED <<dbVars, lock, thr, rq, lv, hd>>

\* The wall clock passes to the next second.
Tick ==
    /\ now <= MaxClock
    /\ now' = now + 1
    /\ UNCHANGED <<students, nextSid, photos, fs, attendance, cache, lock, thr,
                   evicting, rq, hist, lv, hd>>

\* ------------------------------------- enrollment requests, statement by statement
\* The requests the server handles at the same time, each on its own thread
\* and its own database connection; every statement commits on its own.
Handlers == 1..MaxHandlers

HdIdle == [pc |-> "idle", op |-> "none", student_id |-> 0,
           photo |-> NoPhoto, filename |-> <<>>]

\* The request of handler h has returned.
HdReturn(h) == hd' = [hd EXCEPT ![h] = HdIdle]

\* save_base64_image(photo_b64, filename): the file is written, or overwritten.
save_base64_image(h) ==
    fs' = Put(fs, PhotoPath(hd[h].filename), hd[h].photo.img)

\* INSERT INTO photos (student_id, photo_path, filename, created_at), commit,
\* and the thread that warms the cache.
InsertPhoto(h) ==
    LET path == PhotoPath(hd[h].filename) IN
    /\ photos' = Append(photos, [student_id |-> hd[h].student_id,
                                 photo_path |-> path])
    /\ \E t \in Workers : StartWarm(t, path)

\* api_upload_photo: the student and the COUNT(*) of its photos (lines 370-389)
upload_check(h, student_id, photo) ==
    /\ hd[h].pc = "idle"
    /\ photo.has
    /\ student_id \in DOMAIN students
    /\ ~student_has_photo(student_id)
    /\ hd' = [hd EXCEPT ![h] = [pc |-> "name", op |-> "upload",
                                student_id |-> student_id, photo |-> photo,
                                filename |-> <<>>]]
    /\ UNCHANGED <<dbVars, cache, lock, thr, evicting, rq, hist, lv>>

\* api_upload_photo: the filename from the clock and its collision test (391-396)
upload_name(h) ==
    /\ hd[h].pc = "name" /\ hd[h].op = "upload"
    /\ LET filename == StampFilename(hd[h].student_id, now) IN
        IF PhotoPath(filename) \in DOMAIN fs \/ filename_exists_in_db(filename)
        THEN HdReturn(h)
        ELSE hd' = [hd EXCEPT ![h].pc = "save", ![h].filename = filename]
    /\ UNCHANGED <<dbVars, cache, lock, thr, evicting, rq, hist, lv>>

\* api_upload_photo: saved = save_base64_image(photo_b64, filename)  (line 399)
upload_save(h) ==
    /\ hd[h].pc = "save" /\ hd[h].op = "upload"
    /\ save_base64_image(h)
    /\ hd' = [hd EXCEPT ![h].pc = "insert"]
    /\ UNCHANGED <<students, nextSid, photos, attendance, now, cache, lock, thr,
                   evicting, rq, hist, lv>>

\* api_upload_photo: the INSERT, the commit and the warming thread (400-407)
upload_insert(h) ==
    /\ hd[h].pc = "insert" /\ hd[h].op = "upload"
    /\ InsertPhoto(h)
    /\ HdReturn(h)
    /\ UNCHANGED <<students, nextSid, fs, attendance, now, cache, lock,
                   evicting, rq, hist, lv>>

\* api_add_student_with_photo for a roll that exists: the COUNT(*) of the
\* student's photos and the collision test of <roll>.png  (lines 267-296)
attach_check(h, roll, photo) ==
    LET known == {s \in DOMAIN students : students[s] = roll} IN
    /\ hd[h].pc = "idle"
    /\ known # {}
    /\ LET student_id == CHOOSE s \in known : TRUE IN
        /\ ~student_has_photo(student_id)
        /\ photo.has
        /\ ~(PhotoPath(RollFilename(roll)) \in DOMAIN fs
              \/ filename_exists_in_db(RollFilename(roll)))
        /\ hd' = [hd EXCEPT ![h] = [pc |-> "save", op |-> "attach",
                                    student_id |-> student_id, photo |-> photo,
                                    filename |-> RollFilename(roll)]]
    /\ UNCHANGED <<dbVars, cache, lock, thr, evicting, rq, hist, lv>>

\* api_add_student_with_photo: saved = save_base64_image(...)  (line 298)
attach_save(h) ==
    /\ hd[h].pc = "save" /\ hd[h].op = "attach"
    /\ save_base64_image(h)
    /\ hd' = [hd EXCEPT ![h].pc = "insert"]
    /\ UNCHANGED <<students, nextSid, photos, attendance, now, cache, lock, thr,
                   evicting, rq, hist, lv>>

\* api_add_student_with_photo: the INSERT, the commit, the warming thread (299-307)
attach_insert(h) ==
    /\ hd[h].pc = "insert" /\ hd[h].op = "attach"
    /\ InsertPhoto(h)
    /\ HdReturn(h)
    /\ UNCHANGED <<students, nextSid, fs, attendance, now, cache, lock,
                   evicting, rq, hist, lv>>

\* api_replace_photo: the student is looked up (lines 418-430)
replace_check(h, student_id, photo) ==
    /\ hd[h].pc = "idle"
    /\ photo.has
    /\ student_id \in DOMAIN students
    /\ hd' = [hd EXCEPT ![h] = [pc |-> "delete", op |-> "replace",
                                student_id |-> student_id, photo |-> photo,
                                filename |-> <<>>]]
    /\ UNCHANGED <<dbVars, cache, lock, thr, evicting, rq, hist, lv>>

\* api_replace_photo: the old files and rows are deleted, commit (433-442)
replace_delete(h) ==
    /\ hd[h].pc = "delete" /\ hd[h].op = "replace"
    /\ fs' = Drop(fs, PathsOf(hd[h].student_id))
    /\ photos' = SelectSeq(photos, LAMBDA r : r.student_id # hd[h].student_id)
    /\ hist' = [hist EXCEPT !.invalid = @ \cup LeftCached(hd[h].student_id)]
    /\ hd' = [hd EXCEPT ![h].pc = "save"]
    /\ UNCHANGED <<students, nextSid, attendance, now, cache, lock, thr,
                   evicting, rq, lv>>

\* api_replace_photo: the filename from the clock, the file saved (444-447)
replace_save(h) ==
    /\ hd[h].pc = "save" /\ hd[h].op = "replace"
    /\ LET filename == StampFilename(hd[h].student_id, now) IN
        /\ fs' = Put(fs, PhotoPath(filename), hd[h].photo.img)
        /\ hd' = [hd EXCEPT ![h].pc = "insert", ![h].filename = filename]
    /\ UNCHANGED <<students, nextSid, photos, attendance, now, cache, lock, thr,
                   evicting, rq, hist, lv>>

\* api_replace_photo: the INSERT, the commit and the warming thread (448-455)
replace_insert(h) ==
    /\ hd[h].pc = "insert" /\ hd[h].op = "replace"
    /\ InsertPhoto(h)
    /\ HdReturn(h)
    /\ UNCHANGED <<students, nextSid, fs, attendance, now, cache, lock,
                   evicting, rq, hist, lv>>

\* ------------------------------------------------------ api_mark_attendance
\* face_recognition.face_distance(known_encodings, unk)
face_distance(known_encodings, unk) ==
    [i \in 1..Len(known_encodings) |-> Abs(known_encodings[i] - unk)]

\* A faulty variant, for comparison: among equal minima the last index wins.
RECURSIVE ArgMinLastFrom(_, _, _)
ArgMinLastFrom(d, i, best) ==
    IF i > Len(d) THEN best
    ELSE ArgMinLastFrom(d, i + 1, IF d[i] <= d[best] THEN i ELSE best)

ArgMinLast(d) == ArgMinLastFrom(d, 2, 1)

\* np.argmin(distances): a scan that keeps the first minimum.
RECURSIVE ArgMinFrom(_, _, _)
ArgMinFrom(d, i, best) ==
    IF i > Len(d) THEN best
    ELSE ArgMinFrom(d, i + 1, IF d[i] < d[best] THEN i ELSE best)

ArgMin(d) == ArgMinFrom(d, 2, 1)

NoMatch(kind) == [kind |-> kind, student_id |-> 0, photo_path |-> <<>>, distance |-> 0]

\* Lines 625-630 for one query embedding against a gallery that is not empty.
MatchBest(known_encodings, known_meta, unk) ==
    LET distances == face_distance(known_encodings, unk)
        best_idx == ArgMin(distances)
        best_distance == distances[best_idx]
    IN  IF best_distance < MATCH_THRESHOLD
        THEN [kind |-> "match",
              student_id |-> known_meta[best_idx].student_id,
              photo_path |-> known_meta[best_idx].photo_path,
              distance |-> best_distance]
        ELSE NoMatch("none")

\* A faulty variant, for comparison: no test for the empty gallery, and np.argmin raises on it.
MatchOneUnguarded(known_encodings, known_meta, unk) ==
    IF Len(known_encodings) = 0 THEN NoMatch("error")
    ELSE MatchBest(known_encodings, known_meta, unk)

\* One pass of the loop of lines 622-647, up to the decision to record.
MatchOne(known_encodings, known_meta, unk) ==
    IF Len(known_encodings) = 0 THEN NoMatch("skip")
    ELSE MatchBest(known_encodings, known_meta, unk)

\* The response of a request: status 0 while there is none.
NoResp == [status |-> 0, success |-> FALSE, matched |-> <<>>,
           has_liveness |-> FALSE, liveness_checked |-> FALSE]

Failure(status) == [NoResp EXCEPT !.status = status]

RqIdle ==
    [pc |-> "idle", frames |-> NoList, image |-> NoPhoto, is_live |-> "none",
     liveness_checked |-> FALSE, pil_img |-> BadFrame, unknown_encs |-> <<>>,
     photos |-> <<>>, i |-> 0, known_encodings |-> <<>>, known_meta |-> <<>>,
     j |-> 0, matches |-> <<>>, extracted |-> FALSE, inserted |-> 0,
     resp |-> NoResp]

\* data = request.get_json(); frames, image_single  (lines 567-572)
mark_begin(requests) ==
    /\ rq.pc = "idle"
    /\ Len(attendance) < MaxEvents
    /\ \E r \in requests :
          rq' = [RqIdle EXCEPT !.pc = "liveness", !.frames = r.frames,
                               !.image = r.image]
    /\ UNCHANGED <<dbVars, cache, lock, thr, evicting, hist, lv, hd>>

\* A faulty variant, for comparison: the test of line 579 is dropped.
LivenessNeverRejects(is_live) == FALSE

\* if not is_live: return 403  (lines 579-580)
LivenessRejects(is_live) == is_live # "true"

\* frames[len(frames)//2]
MidFrame(frames) == frames[(Len(frames) \div 2) + 1]

\* The liveness gate and the decoding of the query image (lines 574-599).
mark_liveness ==
    /\ rq.pc = "liveness"
    /\ rq' =
        IF rq.frames.has /\ Len(rq.frames.list) >= 2
        THEN LET is_live == FramesHaveMotion(rq.frames, DEFAULT_THRESHOLD_PIXELS,
                                             DEFAULT_DIFF_THRESHOLD)
                 mid == MidFrame(rq.frames.list)
             IN  IF is_live = "raise"
                 THEN [rq EXCEPT !.pc = "done", !.is_live = is_live,
                                 !.resp = Failure(500)]
                 ELSE IF LivenessRejects(is_live)
                 THEN [rq EXCEPT !.pc = "done", !.is_live = is_live,
                                 !.liveness_checked = TRUE, !.resp = Failure(403)]
                 ELSE IF ~mid.ok
                 THEN [rq EXCEPT !.pc = "done", !.is_live = is_live,
                                 !.liveness_checked = TRUE, !.resp = Failure(500)]
                 ELSE [rq EXCEPT !.pc = "extract", !.is_live = is_live,
                                 !.liveness_checked = TRUE, !.pil_img = mid]
        ELSE IF rq.image.has
        THEN IF ~rq.image.img.ok
             THEN [rq EXCEPT !.pc = "done", !.resp = Failure(400)]
             ELSE [rq EXCEPT !.pc = "extract", !.pil_img = rq.image.img]
        ELSE [rq EXCEPT !.pc = "done", !.resp = Failure(400)]
    /\ UNCHANGED <<dbVars, cache, lock, thr, evicting, hist, lv, hd>>

\* compute_face_encodings_from_pil(pil_img)  (lines 602-604)
mark_extract ==
    /\ rq.pc = "extract"
    /\ LET unknown_encs == rq.pil_img.faces IN
        rq' = IF unknown_encs = <<>>
              THEN [rq EXCEPT !.pc = "done", !.extracted = TRUE,
                              !.resp = [NoResp EXCEPT !.status = 200,
                                                      !.success = TRUE]]
              ELSE [rq EXCEPT !.pc = "select", !.extracted = TRUE,
                              !.unknown_encs = unknown_encs]
    /\ UNCHANGED <<dbVars, cache, lock, thr, evicting, hist, lv, hd>>

\* SELECT id, student_id, photo_path FROM photos  (lines 607-614)
mark_select ==
    /\ rq.pc = "select"
    /\ rq' = [rq EXCEPT !.pc = "gallery", !.photos = photos, !.i = 1]
    /\ UNCHANGED <<dbVars, cache, lock, thr, evicting, hist, lv, hd>>

\* for pid, sid, ppath in photos: enc = compute_face_encoding_from_file(ppath)
mark_gallery_call ==
    /\ rq.pc = "gallery"
    /\ thr[ReqThread].pc = "idle"
    /\ \/ /\ rq.i <= Len(rq.photos)
          /\ thr' = [thr EXCEPT ![ReqThread] = Called(rq.photos[rq.i].photo_path)]
          /\ UNCHANGED rq
       \/ /\ rq.i > Len(rq.photos)
          /\ rq' = [rq EXCEPT !.pc = "match", !.j = 1]
          /\ UNCHANGED thr
    /\ UNCHANGED <<dbVars, cache, lock, evicting, hist, lv, hd>>

\* if enc is not None: known_encodings.append, known_meta.append (617-619)
mark_gallery_collect ==
    /\ rq.pc = "gallery"
    /\ thr[ReqThread].pc = "ret"
    /\ LET enc == thr[ReqThread].ret
           row == rq.photos[rq.i]
       IN  rq' = IF enc # NoEnc
                 THEN [rq EXCEPT !.i = @ + 1,
                                 !.known_encodings = Append(@, enc),
                                 !.known_meta = Append(@, row)]
                 ELSE [rq EXCEPT !.i = @ + 1]
    /\ thr' = [thr EXCEPT ![ReqThread] = IdleThread]
    /\ UNCHANGED <<dbVars, cache, lock, evicting, hist, lv, hd>>

\* A faulty variant, for comparison: a student already in the table gets no second row.
InsertAttendanceOnce(rows, sid) ==
    IF \E i \in 1..Len(rows) : rows[i] = sid THEN rows ELSE Append(rows, sid)

\* INSERT INTO attendance (student_id, ...) and commit  (lines 639-644)
InsertAttendance(rows, sid) == Append(rows, sid)

\* One pass of for unk in unknown_encs, with its INSERT (lines 622-647).
mark_match ==
    /\ rq.pc = "match"
    /\ rq.j <= Len(rq.unknown_encs)
    /\ LET m == MatchOne(rq.known_encodings, rq.known_meta, rq.unknown_encs[rq.j]) IN
        /\ attendance' = IF m.kind = "match"
                         THEN InsertAttendance(attendance, m.student_id)
                         ELSE attendance
        /\ rq' = IF m.kind = "match"
                 THEN [rq EXCEPT !.j = @ + 1, !.inserted = @ + 1,
                                 !.matches = Append(@, [student_id |-> m.student_id,
                                                        photo_path |-> m.photo_path,
                                                        distance |-> m.distance])]
                 ELSE IF m.kind = "error"
                 THEN [rq EXCEPT !.pc = "done", !.resp = Failure(500)]
                 ELSE [rq EXCEPT !.j = @ + 1]
    /\ UNCHANGED <<students, nextSid, photos, fs, now, cache, lock, thr,
                   evicting, hist, lv, hd>>

\* return jsonify(success, matched, liveness_checked)  (line 649)
mark_respond ==
    /\ rq.pc = "match"
    /\ rq.j > Len(rq.unknown_encs)
    /\ rq' = [rq EXCEPT !.pc = "done",
                        !.resp = [status |-> 200, success |-> TRUE,
                                  matched |-> rq.matches, has_liveness |-> TRUE,
                                  liveness_checked |-> rq.liveness_checked]]
    /\ UNCHANGED <<dbVars, cache, lock, thr, evicting, hist, lv, hd>>

\* The response is sent and the request's locals are gone.
mark_finish ==
    /\ rq.pc = "done"
    /\ rq' = RqIdle
    /\ UNCHANGED <<dbVars, cache, lock, thr, evicting, hist, lv, hd>>

\* --------------------------------------------------------- specifications
NoHist == [invalid |-> {}, pre |-> {}, staleKeys |-> {}, staleHit |-> FALSE]

LvIdle == [frames |-> NoList, threshold_pixels |-> 0,
           diff_threshold |-> 0, out |-> "idle"]

\* No thread runs, the cache is empty: the process has just started.
Started ==
    /\ cache = Empty
    /\ lock = {}
    /\ thr = [t \in Threads |-> IdleThread]
    /\ evicting = {}
    /\ rq = RqIdle
    /\ hist = NoHist
    /\ lv = LvIdle
    /\ hd = [h \in Handlers |-> HdIdle]
    /\ attendance = <<>>
    /\ now = 1

\* The service on an empty database (init_db on a fresh file).
Init ==
    /\ Started
    /\ students = Empty
    /\ nextSid = 1
    /\ photos = <<>>
    /\ fs = Empty

EnrollPhotos == {Photo(<<0>>), Photo(<<>>)}
PhotoFields == {NoPhoto} \cup {Given(img) : img \in EnrollPhotos}

\* The requests sent while photos are enrolled, replaced and deleted.
CacheRequests == {[frames |-> NoList, image |-> Given(Photo(<<0>>))]}

Next ==
    \/ \E roll \in Rolls, photo \in PhotoFields : api_add_student_with_photo(roll, photo)
    \/ \E s \in 1..MaxStudents, photo \in PhotoFields : api_upload_photo(s, photo)
    \/ \E s \in 1..MaxStudents, photo \in PhotoFields : api_replace_photo(s, photo)
    \/ \E s \in 1..MaxStudents : api_delete_student(s)
    \/ \E s \in 1..MaxStudents : evict_encoding_cache(s)
    \/ Tick
    \/ \E t \in Threads : ComputeAcquireRead(t)
    \/ \E t \in Threads : ComputeRead(t)
    \/ \E t \in Threads : ComputeExtract(t)
    \/ \E t \in Threads : ComputeAcquireWrite(t)
    \/ \E t \in Threads : ComputeStore(t)
    \/ mark_begin(CacheRequests)
    \/ mark_liveness
    \/ mark_extract
    \/ mark_select
    \/ mark_gallery_call
    \/ mark_gallery_collect
    \/ mark_match
    \/ mark_respond
    \/ mark_finish

Spec == Init /\ [][Next]_vars

\* ------------------------------------- requests against a fixed enrollment
\* The enrolled photos: two faces 0.60 apart, a photo with no face, a file
\* that is no image.
MarkPhotos == {Photo(<<0>>), Photo(<<60>>), Photo(<<>>), BadFrame}

Galleries == UNION {[1..n -> MarkPhotos] : n \in 0..MaxGallery}

EnrolledPath(s) == PhotoPath(StampFilename(s, 1))

\* Students 1..n, each with one uploaded photo, after a restart of the
\* service: the database and the files are there, the cache is empty.
InitMark ==
    /\ Started
    /\ \E g \in Galleries :
          /\ students = [s \in 1..Len(g) |-> <<"R">> \o ToStr(s)]
          /\ nextSid = Len(g) + 1
          /\ photos = [s \in 1..Len(g) |->
                          [student_id |-> s, photo_path |-> EnrolledPath(s)]]
          /\ fs = [p \in {EnrolledPath(s) : s \in 1..Len(g)} |->
                      g[CHOOSE s \in 1..Len(g) : EnrolledPath(s) = p]]

\* A frame of one block of more pixels than the motion threshold counts.
Block(lum, faces) == Image(DEFAULT_THRESHOLD_PIXELS + 1, <<lum>>, faces)

\* The frames a client sends: a dark and two bright frames of the same size
\* (one of them shows two faces close to each other), a bright frame one
\* pixel narrower, and a frame that cannot be decoded.
MarkFrames ==
    {Block(0, <<30>>), Block(255, <<50, 0>>), Block(255, <<40, 20>>),
     Image(DEFAULT_THRESHOLD_PIXELS, <<255>>, <<>>), BadFrame}

MarkImages == {Photo(<<100>>), Photo(<<>>), BadFrame}

MarkRequests ==
    [frames : {NoList} \cup
              {List(f) : f \in UNION {[1..n -> MarkFrames] : n \in 0..MaxReqFrames}},
     image : {NoPhoto} \cup {Given(img) : img \in MarkImages}]

NextMark ==
    \/ mark_begin(MarkRequests)
    \/ mark_liveness
    \/ mark_extract
    \/ mark_select
    \/ mark_gallery_call
    \/ ComputeAcquireRead(ReqThread)
    \/ ComputeRead(ReqThread)
    \/ ComputeExtract(ReqThread)
    \/ ComputeAcquireWrite(ReqThread)
    \/ ComputeStore(ReqThread)
    \/ mark_gallery_collect
    \/ mark_match
    \/ mark_respond
    \/ mark_finish

SpecMark == InitMark /\ [][NextMark]_vars

\* ------------------------------------------- concurrent enrollment requests
\* One student without a photo, as api_add_student_with_photo leaves it when
\* no photo is sent.
InitPhotos ==
    /\ Started
    /\ students = [s \in {1} |-> <<"1">>]
    /\ nextSid = 2
    /\ photos = <<>>
    /\ fs = Empty

ConcurrentPhotos == {Given(Photo(<<0>>))}

NextPhotos ==
    \/ \E h \in Handlers, s \in DOMAIN students, photo \in ConcurrentPhotos :
          upload_check(h, s, photo)
    \/ \E h \in Handlers : upload_name(h)
    \/ \E h \in Handlers : upload_save(h)
    \/ \E h \in Handlers : upload_insert(h)
    \/ \E h \in Handlers, roll \in Rolls, photo \in ConcurrentPhotos :
          attach_check(h, roll, photo)
    \/ \E h \in Handlers : attach_save(h)
    \/ \E h \in Handlers : attach_insert(h)
    \/ \E h \in Handlers, s \in DOMAIN students, photo \in ConcurrentPhotos :
          replace_check(h, s, photo)
    \/ \E h \in Handlers : replace_delete(h)
    \/ \E h \in Handlers : replace_save(h)
    \/ \E h \in Handlers : replace_insert(h)
    \/ Tick
    \/ \E t \in Workers : ComputeAcquireRead(t)
    \/ \E t \in Workers : ComputeRead(t)
    \/ \E t \in Workers : ComputeExtract(t)
    \/ \E t \in Workers : ComputeAcquireWrite(t)
    \/ \E t \in Workers : ComputeStore(t)

SpecPhotos == InitPhotos /\ [][NextPhotos]_vars

\* ---------------------------------------------- the liveness check alone
PixVals == {0, 255}

LvImages ==
    {Image(1, p, <<>>) : p \in UNION {[1..n -> PixVals] : n \in 1..MaxWidth}}

LvFrames == LvImages \cup {BadFrame}

LvLists ==
    {NoList} \cup {List(s) : s \in UNION {[1..n -> LvFrames] : n \in 0..MaxFrames}}

LvCalls ==
    [frames : LvLists, threshold_pixels : {0, 1},
     diff_threshold : {DEFAULT_DIFF_THRESHOLD, 255}]

InitLive == Init

LiveCall ==
    /\ lv.out = "idle"
    /\ \E c \in LvCalls :
          lv' = [frames |-> c.frames, threshold_pixels |-> c.threshold_pixels,
                 diff_threshold |-> c.diff_threshold,
                 out |-> FramesHaveMotion(c.frames, c.threshold_pixels,
                                          c.diff_threshold)]
    /\ UNCHANGED <<dbVars, cache, lock, thr, evicting, rq, hist, hd>>

LiveReturn ==
    /\ lv.out # "idle"
    /\ lv' = LvIdle
    /\ UNCHANGED <<dbVars, cache, lock, thr, evicting, rq, hist, hd>>

NextLive == LiveCall \/ LiveReturn

SpecLive == InitLive /\ [][NextLive]_vars

\* ---------------------------------------------------------- claims C5, C6
LvArgs == lv.frames.list

\* Pixels of two equal-sized frames whose luminance differs by more than
\* diff_threshold, the difference taken in the integers.
TrueMoving(a, b, diff_threshold) ==
    a.w * Cardinality({k \in 1..Len(a.px) : Abs(a.px[k] - b.px[k]) > diff_threshold})

LvEqualSized ==
    \A i \in 1..Len(LvArgs) : \A j \in 1..Len(LvArgs) :
        LvArgs[i].w = LvArgs[j].w /\ Len(LvArgs[i].px) = Len(LvArgs[j].px)

LvPairMoves(i) ==
    TrueMoving(LvArgs[i], LvArgs[i + 1], lv.diff_threshold) > lv.threshold_pixels

\* C5: frames_have_motion fails closed: for a missing or empty frame list,
\* for a single frame, and for a list holding a frame that cannot be
\* decoded, it returns false, whatever motion the other frames show.
C5_FailsClosed ==
    (/\ lv.out # "idle"
     /\ \/ ~lv.frames.has
        \/ Len(LvArgs) < 2
        \/ \E i \in 1..Len(LvArgs) : ~LvArgs[i].ok)
    => lv.out = "false"

\* A call returned false on a list whose last frame cannot be decoded while
\* its first two frames are decodable and differ in every pixel.
C5_Witness ==
    /\ lv.out = "false"
    /\ Len(LvArgs) = 3
    /\ LvArgs[1].ok /\ LvArgs[2].ok /\ ~LvArgs[3].ok
    /\ Len(LvArgs[1].px) = Len(LvArgs[2].px)
    /\ LvPairMoves(1)

\* C6: on two or more decodable equal-sized frames frames_have_motion
\* returns true exactly when some consecutive pair has more than
\* threshold_pixels pixels whose luminance differs by more than
\* diff_threshold (no 8-bit wraparound), and it returns false otherwise.
C6_MotionIff ==
    (/\ lv.out # "idle"
     /\ lv.frames.has
     /\ Len(LvArgs) >= 2
     /\ \A i \in 1..Len(LvArgs) : LvArgs[i].ok
     /\ LvEqualSized)
    => /\ lv.out \in {"true", "false"}
       /\ lv.out = "true" <=> \E i \in 1..(Len(LvArgs) - 1) : LvPairMoves(i)

\* Three decodable equal-sized frames, the first pair identical and the
\* second pair going from white to black: the call returned true.
C6_Witness ==
    /\ lv.out = "true"
    /\ lv.frames.has
    /\ Len(LvArgs) = 3
    /\ \A i \in 1..3 : LvArgs[i].ok
    /\ LvEqualSized
    /\ LvArgs[1] = LvArgs[2]
    /\ \E k \in 1..Len(LvArgs[2].px) : LvArgs[2].px[k] = 255 /\ LvArgs[3].px[k] = 0
    /\ LvPairMoves(2)

\* ------------------------------------------------------ claims C1 to C4
\* No handler and no thread is at work.
Quiet ==
    /\ evicting = {}
    /\ rq.pc = "idle"
    /\ \A t \in Threads : thr[t].pc = "idle"

\* C1: after any sequence of enrollments, replacements and deletions the
\* cache holds no entry whose key is the path of a photo that has been
\* deleted or replaced.
C1_NoEntryForRemovedPhoto ==
    Quiet => hist.invalid \cap DOMAIN cache = {}

\* C2: after a key has been popped by api_delete_student, no call of
\* compute_face_encoding_from_file returns from the cache an embedding that
\* was extracted before that eviction and is not what the extractor gives on
\* the file now at that path, in any interleaving.
C2_NoStaleAfterEvict == ~hist.staleHit

\* C3: the cache changes only by the store of an embedding that an
\* extraction produced; a call whose extraction finds no face or raises
\* returns None and leaves the cache as it was; and a call that finds its
\* key absent runs the extractor.
C3_Step ==
    /\ \A k \in DOMAIN cache' :
          (k \notin DOMAIN cache \/ cache'[k] # cache[k]) =>
              \E t \in Threads :
                  /\ thr[t].pc = "store" /\ thr[t].path = k
                  /\ thr[t].enc # NoEnc /\ cache'[k] = thr[t].enc
    /\ \A k \in DOMAIN cache' : cache'[k] # NoEnc
    /\ \A t \in Threads :
          (thr[t].pc = "extract" /\ thr'[t].pc # "extract"
             /\ ExtractFile(thr[t].path) = NoEnc) =>
              /\ cache' = cache
              /\ thr'[t].pc \in {"idle", "ret"}
              /\ thr'[t].ret = NoEnc
    /\ \A t \in Threads :
          (thr[t].pc = "read" /\ thr[t].path \notin DOMAIN cache
             /\ thr'[t] # thr[t]) => thr'[t].pc = "extract"

C3_OnlyFacesCached == [][C3_Step]_vars

\* The request's call returned None for a stored photo that shows no face,
\* and the cache holds nothing for that photo.
C3_Witness ==
    /\ thr[ReqThread].pc = "ret"
    /\ thr[ReqThread].ret = NoEnc
    /\ thr[ReqThread].path \in DOMAIN fs
    /\ fs[thr[ReqThread].path].ok
    /\ fs[thr[ReqThread].path].faces = <<>>
    /\ thr[ReqThread].path \notin DOMAIN cache

\* C4: no thread holds ENCODING_CACHE_LOCK while it runs the extractor: the
\* lock is held only in the cache read and the cache write.
C4_LockOnlyAroundCache ==
    /\ Cardinality(lock) <= 1
    /\ \A t \in Threads :
          /\ thr[t].pc = "extract" => t \notin lock
          /\ t \in lock => thr[t].pc \in {"read", "store"}

\* One thread is extracting while another holds the lock to look up a
\* different key.
C4_Witness ==
    \E t \in Threads, u \in Threads :
        /\ thr[t].pc = "extract"
        /\ thr[u].pc = "read" /\ lock = {u}
        /\ thr[u].path # thr[t].path

\* ------------------------------------------------------ claims C7 to C10
\* The request took the frames path of line 575.
FramesRequest == rq.frames.has /\ Len(rq.frames.list) >= 2

\* C7: on a frames request the extraction, the gallery, the matching and
\* the insert happen only after frames_have_motion returned true; when it
\* returns false the request ends with 403, nothing extracted, nothing
\* recorded.
C7_LivenessGates ==
    FramesRequest =>
        /\ (\/ rq.pc \in {"extract", "select", "gallery", "match"}
            \/ rq.extracted
            \/ rq.inserted > 0
            \/ rq.photos # <<>>
            \/ thr[ReqThread].pc # "idle")
           => (rq.is_live = "true" /\ rq.liveness_checked)
        /\ (rq.pc = "done" /\ rq.is_live # "true")
           => /\ ~rq.extracted
              /\ rq.inserted = 0
              /\ ~rq.resp.success
              /\ rq.is_live = "false" => rq.resp.status = 403

\* A frames request that showed motion went on to record attendance.
C7_Witness ==
    /\ FramesRequest
    /\ rq.pc = "done"
    /\ rq.is_live = "true"
    /\ rq.extracted
    /\ rq.inserted > 0

\* C8: a request whose frames list has fewer than 2 frames records no
\* attendance event, whatever else it carries.
C8_FewFramesRecordNothing ==
    (rq.frames.has /\ Len(rq.frames.list) < 2) => rq.inserted = 0

\* The distance of query q to gallery entry i, and the least of them.
DistTo(q, i) == Abs(rq.known_encodings[i] - q)

MinDist(q) ==
    CHOOSE m \in {DistTo(q, i) : i \in 1..Len(rq.known_encodings)} :
        \A i \in 1..Len(rq.known_encodings) : m <= DistTo(q, i)

\* The lowest gallery index at the least distance.
FirstNearest(q) ==
    CHOOSE i \in 1..Len(rq.known_encodings) :
        /\ DistTo(q, i) = MinDist(q)
        /\ \A k \in 1..(i - 1) : DistTo(q, k) # MinDist(q)

\* The queries that match, and the k-th of them in the order of the queries.
Hits == {j \in 1..Len(rq.unknown_encs) : MinDist(rq.unknown_encs[j]) < 50}

NthHit(k) == CHOOSE j \in Hits : Cardinality({h \in Hits : h <= j}) = k

ExpectedMatches ==
    [k \in 1..Cardinality(Hits) |->
        LET q == rq.unknown_encs[NthHit(k)] IN
        [student_id |-> rq.known_meta[FirstNearest(q)].student_id,
         photo_path |-> rq.known_meta[FirstNearest(q)].photo_path,
         distance |-> MinDist(q)]]

\* C9: against a gallery that is not empty, each query embedding is matched
\* to the entry of least distance, the lowest index among equals, exactly
\* when that distance is below 0.50, and the matches are reported in the
\* order of the queries.
C9_MatchLoop ==
    (rq.pc = "done" /\ rq.resp.has_liveness /\ Len(rq.known_encodings) > 0)
    => rq.resp.matched = ExpectedMatches

\* A query at 0.30 from both of two gallery entries matched the first.
C9_Witness ==
    /\ rq.pc = "done"
    /\ rq.known_encodings = <<0, 60>>
    /\ rq.unknown_encs = <<30>>
    /\ Len(rq.resp.matched) = 1
    /\ rq.resp.matched[1].student_id = rq.known_meta[1].student_id
    /\ rq.resp.matched[1].distance = 30

\* C10: with an empty gallery the matching records nothing, reports no
\* match and the request ends with a success and an empty match list.
C10_EmptyGallery ==
    (rq.j > 0 /\ Len(rq.known_encodings) = 0)
    => /\ rq.inserted = 0
       /\ rq.matches = <<>>
       /\ rq.pc = "done" => /\ rq.resp.status = 200
                            /\ rq.resp.success
                            /\ rq.resp.matched = <<>>

\* Two query faces against enrolled photos none of which shows a face: the
\* request ended with a success and no match.
C10_Witness ==
    /\ rq.pc = "done"
    /\ rq.j > 0
    /\ Len(rq.photos) > 0
    /\ Len(rq.known_encodings) = 0
    /\ Len(rq.unknown_encs) = 2
    /\ rq.resp.status = 200
    /\ rq.resp.matched = <<>>

\* ---------------------------------------------------------------- claim C11
\* What a step of a request in progress adds to the list of its matches.
NewMatches ==
    IF rq.pc = "idle" \/ rq'.pc = "idle" THEN <<>>
    ELSE SubSeq(rq'.matches, Len(rq.matches) + 1, Len(rq'.matches))

\* The student_id of each match of a list, in order.
StudentsOf(ms) == [k \in 1..Len(ms) |-> ms[k].student_id]

C11_Step ==
    /\ Len(NewMatches) <= 1
    /\ attendance' = attendance \o StudentsOf(NewMatches)
    /\ rq'.resp.success => rq'.resp.matched = rq'.matches
    /\ rq'.pc # "idle" => Len(rq'.matches) = rq'.inserted

\* C11: no deduplication.  In every step of every sequence of
\* api_mark_attendance requests the attendance table grows by exactly the
\* matches the step adds to the request's list, one row per match with the
\* matched student_id, whether or not that student already has a row, and by
\* nothing else; the successful response reports exactly that list.  So the
\* number of events after the requests is the number of matches reported.
C11_NoDeduplication == [][C11_Step]_vars

\* Two faces of one frame have matched the same student: two matches are
\* reported and the table holds two rows of that student.
C11_Witness ==
    /\ rq.pc = "done" /\ rq.resp.success
    /\ rq.frames.has /\ Len(rq.resp.matched) = 2
    /\ rq.resp.matched[1].student_id = rq.resp.matched[2].student_id
    /\ Len(attendance) = 2 /\ attendance[1] = attendance[2]

\* ---------------------------------------------------------------- claim C12
\* C12: every successful response carries the liveness flag: true when the
\* frames path ran the motion check, false when a single image was matched.
C12_FlagInEverySuccess ==
    (rq.pc = "done" /\ rq.resp.success) =>
        /\ rq.resp.has_liveness
        /\ rq.resp.liveness_checked =
              (rq.frames.has /\ Len(rq.frames.list) >= 2)

\* ---------------------------------------------------------------- claim C14
\* C14: every row of the attendance table references a student of the
\* students table, in every interleaving of api_mark_attendance with
\* api_delete_student.
C14_EventsReferenceStudents ==
    \A i \in 1..Len(attendance) : attendance[i] \in DOMAIN students

\* ---------------------------------------------------------------- claim C13
\* The rows of the photos table of student s.
PhotoRows(s) == {i \in 1..Len(photos) : photos[i].student_id = s}

\* C13: in every reachable state, whatever the interleaving of concurrent
\* upload, attach and replace requests, each student has at most one row in
\* the photos table.
C13_AtMostOnePhotoRow ==
    \A s \in DOMAIN students : Cardinality(PhotoRows(s)) <= 1

====
